---- MODULE Spec2Model ----
(***************************************************************************)
(* CollabHub backend: the account-security subsystem (users app).          *)
(*                                                                         *)
(* The database is the shared state; every HTTP request runs on a worker   *)
(* and is a sequence of database statements (no view of the users app      *)
(* opens a transaction, settings.py sets no ATOMIC_REQUESTS), so each      *)
(* statement is one step and the statements of different requests          *)
(* interleave.  Python-local objects (token_obj, token_obj.user,           *)
(* request.user) are the snapshots a worker holds between its statements.  *)
(***************************************************************************)
EXTENDS Integers, Sequences, FiniteSets, TLC

\* ------------------------------------------------------------------ bounds
NumUsers == 2
NumProcs == 2
MaxTokens == 2
NumPasswords == 2
MaxSecrets == 2
MaxCodeGens == 2
MaxEvents == 3
MaxTotpSteps == 1
\* The users that call the MFA endpoints.
NumMfaUsers == 1
\* generate_backup_codes(10) issues ten codes; the model issues this many.
NumBackupCodes == 2
NumCaptchaActions == 2
MaxAuditLogs == 4
NumIps == 1

\* ------------------------------------------------------- program constants
EV_TTL_HOURS == 24
PR_TTL_HOURS == 1
TOTP_INTERVAL == 30
TOTP_VALID_WINDOW == 1
CAPTCHA_SCORE_THRESHOLD == 5    \* settings.CAPTCHA_SCORE_THRESHOLD, 0.5, in tenths

Users == 1..NumUsers
Procs == 1..NumProcs
TokenIds == 1..MaxTokens
\* A submitted password is its length class and its text: 0 stands for a
\* missing or shorter-than-8 password, 1..NumPasswords for acceptable ones.
Passwords == 1..NumPasswords
\* A submitted email: 0 is the empty string, u is the address of user u.
EmailInputs == 0..NumUsers
MfaUsers == 1..NumMfaUsers

EV_TTL == EV_TTL_HOURS * 3600
PR_TTL == PR_TTL_HOURS * 3600

VARIABLES
    debug,          \* settings.DEBUG
    purpose,        \* the token purpose whose flows run: "verification" or "reset"
    now,            \* timezone.now(), in seconds
    users,          \* table users: row of each user id
    evTokens,       \* table email_verification_tokens, a token's string is its index
    prTokens,       \* table password_reset_tokens
    req,            \* per worker: the request in flight and its local objects
    resp,           \* the response returned by the step just taken, NoResp if none
    evWins,         \* per verification token: calls of verify_token that returned the user
    prWins,         \* per reset token: calls of reset_password that returned the user
    evSuperseded,   \* verification tokens that existed when a completed create_token began
    prSuperseded,   \* reset tokens that existed when a completed create_token began
    events,         \* table security_events, in insertion order
    secretsIssued,  \* how many TOTP secrets generate_totp_secret has drawn
    codeGens,       \* how many backup-code sets generate_backup_codes has drawn
    bkWins,         \* per backup code: verify_mfa calls it authenticated (2 = more than one)
    captcha,        \* the last verify_captcha call: its inputs and its result
    auditLog,       \* table audit_logs, in insertion order
    preSaveState,   \* security.audit._pre_save_state: per "User:pk" key, the row kept
    threadLocals    \* security.audit._thread_locals, per worker thread

tokHist == <<evWins, prWins, evSuperseded, prSuperseded>>
mfaVars == <<events, secretsIssued, codeGens, bkWins>>
auditVars == <<auditLog, preSaveState, threadLocals>>

vars == <<debug, purpose, now, users, evTokens, prTokens, req, resp,
          evWins, prWins, evSuperseded, prSuperseded,
          events, secretsIssued, codeGens, bkWins,
          captcha, auditLog, preSaveState, threadLocals>>

\* ------------------------------------------------------------------ values
make_password(pw) == <<"hash", pw>>
check_password(pw, hashed) == hashed = make_password(pw)

\* A row of table users; mfa_secret 0 is NULL.
NoUserRow ==
    [exists |-> FALSE, password |-> <<"unusable", 0>>, is_verified |-> FALSE,
     is_active |-> TRUE, mfa_enabled |-> FALSE, mfa_secret |-> 0,
     backup_codes |-> <<>>]

IdleReq ==
    [op |-> "idle", view |-> "none", user |-> 0, tok |-> 0,
     snap |-> NoUserRow, pre |-> 0, pw |-> 0,
     before |-> NoUserRow]   \* the stored row a save's UPDATE replaced

\* A response: the view, the HTTP status, the body (one name per distinct
\* body text), for the token views the token the URL named, and for the
\* authenticated views the user.
TokResponse(view, status, body, t) ==
    [view |-> view, status |-> status, body |-> body, tok |-> t, user |-> 0]
\* The response of a view that has identified the user it answers.
UserResponse(view, status, body, u) ==
    [view |-> view, status |-> status, body |-> body, tok |-> 0, user |-> u]
Response(view, status, body) == TokResponse(view, status, body, 0)
NoResp == Response("none", 0, "none")

UserByEmail(email) ==
    IF email \in Users /\ users[email].exists THEN email ELSE 0

\* (mutant) a lookup that still accepts a token at its expiry instant.
TokenGet_Inclusive(tokens, t) ==
    /\ t \in 1..Len(tokens)
    /\ ~tokens[t].used
    /\ tokens[t].expires_at >= now

\* cls.objects.get(token=token, used=False, expires_at__gt=timezone.now())
TokenGet(tokens, t) ==
    /\ t \in 1..Len(tokens)
    /\ ~tokens[t].used
    /\ tokens[t].expires_at > now

\* cls.objects.filter(user=user, used=False).update(used=True)
InvalidateUnused(tokens, u) ==
    [i \in 1..Len(tokens) |->
        IF tokens[i].user = u /\ ~tokens[i].used
        THEN [tokens[i] EXCEPT !.used = TRUE]
        ELSE tokens[i]]

\* (mutant) a lookup failure that says which condition failed.
TokenError_Detailed(tokens, t) ==
    IF t \notin 1..Len(tokens) THEN "invalid"
    ELSE IF tokens[t].used THEN "already_used"
    ELSE "expired"

\* except cls.DoesNotExist: return None -- the one query fails the same way
\* for an unknown, a used and an expired token, and the views answer None
\* with one message.
TokenError(tokens, t) == "invalid_or_expired"

\* cls.objects.create(user=user, token=token, expires_at=expires_at)
NewToken(u, ttl) == [user |-> u, used |-> FALSE, expires_at |-> now + ttl]

TokensOf(tokens, u, upto) == {i \in 1..upto : i <= Len(tokens) /\ tokens[i].user = u}

\* --------------------------------------------------------------- MFA values
\* A submitted code is a string; the model keeps what the code is: the TOTP
\* value of a secret at a time step, a backup code (the idx-th of the gen-th
\* generated set) as typed (upper case as issued, or lower case with hyphens
\* and spaces), some other string, or nothing.
Code(kind, a, b, form) == [kind |-> kind, a |-> a, b |-> b, form |-> form]
NoCode == Code("none", 0, 0, "canon")
OtherCode == Code("other", 0, 0, "canon")
BackupCode(gen, idx) == Code("backup", gen, idx, "canon")
BackupCodes == {BackupCode(g, i) : g \in 1..MaxCodeGens, i \in 1..NumBackupCodes}

\* pyotp: the 6-digit value of the secret at a 30-second time step.
TotpAt(secret, step) == Code("totp", secret, step, "canon")
TimeStep == now \div TOTP_INTERVAL

\* (mutant) a verification without skew: only the current step's value.
verify_totp_ExactStep(secret, code) == code = TotpAt(secret, TimeStep)

\* totp.verify(code, valid_window=1)
verify_totp(secret, code) ==
    \E k \in (TimeStep - TOTP_VALID_WINDOW)..(TimeStep + TOTP_VALID_WINDOW) :
        code = TotpAt(secret, k)

\* generate_backup_codes(count): fresh random codes, the gen-th set drawn.
generate_backup_codes(gen) == [i \in 1..NumBackupCodes |-> BackupCode(gen, i)]

\* hash_backup_codes(codes)
hash_backup_codes(codes) == [i \in 1..Len(codes) |-> make_password(codes[i])]

\* plain_code.upper().replace('-', '').replace(' ', '')
NormalizeCode(code) ==
    IF code.kind = "backup" THEN [code EXCEPT !.form = "canon"] ELSE code

\* verify_backup_code(plain_code, hashed_codes): the index of the first
\* stored hash the normalised code matches, 0 when there is none.
verify_backup_code(code, hashed) ==
    LET hits == {i \in 1..Len(hashed) : check_password(NormalizeCode(code), hashed[i])}
    IN IF hits = {} THEN 0 ELSE CHOOSE i \in hits : \A j \in hits : i <= j

\* codes = list(user.backup_codes); codes.pop(index)
PopIndex(codes, index) ==
    [i \in 1..(Len(codes) - 1) |-> IF i < index THEN codes[i] ELSE codes[i + 1]]

\* The codes a request may carry.
CodeInputs ==
    {NoCode, OtherCode}
        \cup {TotpAt(s, k) : s \in 1..MaxSecrets, k \in (TimeStep - 2)..(TimeStep + 2)}
        \cup {Code("backup", g, i, f) : g \in 1..MaxCodeGens, i \in 1..NumBackupCodes,
                                        f \in {"canon", "lower-dashed"}}

\* details=details or {}: the MFA and deletion loggers pass no details.
NoDetails == [anonymized |-> FALSE, original_user |-> 0]

\* SecurityEvent.objects.create(user=user, event_type=event_type, ...)
SecurityEvent(type, u) == [event_type |-> type, user |-> u, details |-> NoDetails]

\* log_security_event: the row is appended; when the write raises (written
\* false) nothing is appended and the exception, which neither the logger nor
\* the views catch, leaves the view as a 500.
Logged(type, u, written) ==
    IF written THEN Append(events, SecurityEvent(type, u)) ELSE events
AfterLog(written, response) ==
    IF written THEN response
    ELSE UserResponse(response.view, 500, "server_error", response.user)

\* ------------------------------------------------------------ users/captcha
\* get_captcha_config(): provider, whether a secret key is set, whether the
\* gate is enabled, the score threshold (in tenths).
CaptchaConfigs ==
    [provider : {"hcaptcha", "recaptcha"}, secret_key : BOOLEAN, enabled : BOOLEAN,
     score_threshold : {CAPTCHA_SCORE_THRESHOLD}]

\* What requests.post(...) and response.json() give: a RequestException
\* (network error, timeout, a body that is no JSON), or the provider's JSON
\* answer with its 'success', 'action' (0: absent) and 'score' (NoScore:
\* absent) entries.
NoScore == 0 - 1
ProviderScores == {NoScore, CAPTCHA_SCORE_THRESHOLD - 1, CAPTCHA_SCORE_THRESHOLD,
                   CAPTCHA_SCORE_THRESHOLD + 1}
ProviderReplies ==
    [kind : {"error"}, success : {FALSE}, action : {0}, score : {NoScore}]
        \cup [kind : {"json"}, success : BOOLEAN, action : 0..NumCaptchaActions,
              score : ProviderScores]

\* The dict a verification returns, with the number of provider calls made.
CaptchaResult(success, skipped, error, calls) ==
    [success |-> success, skipped |-> skipped, error |-> error, calls |-> calls]

\* (mutant) a threshold the score has to exceed.
ScoreTooLow_Inclusive(score, threshold) == score <= threshold

\* score = result.get('score', 0); if score < config['score_threshold']
ScoreTooLow(score, threshold) ==
    (IF score = NoScore THEN 0 ELSE score) < threshold

\* verify_hcaptcha(token, remote_ip)
verify_hcaptcha(config, token, reply) ==
    IF ~config.enabled THEN CaptchaResult(TRUE, TRUE, "none", 0)
    ELSE IF ~config.secret_key THEN CaptchaResult(FALSE, FALSE, "not_configured", 0)
    ELSE IF token = 0 THEN CaptchaResult(FALSE, FALSE, "token_required", 0)
    ELSE IF reply.kind = "error" THEN CaptchaResult(FALSE, FALSE, "verification_error", 1)
    ELSE IF reply.success THEN CaptchaResult(TRUE, FALSE, "none", 1)
    ELSE CaptchaResult(FALSE, FALSE, "verification_failed", 1)

\* verify_recaptcha_v3(token, action, remote_ip)
verify_recaptcha_v3(config, token, action, reply) ==
    IF ~config.enabled THEN CaptchaResult(TRUE, TRUE, "none", 0)
    ELSE IF ~config.secret_key THEN CaptchaResult(FALSE, FALSE, "not_configured", 0)
    ELSE IF token = 0 THEN CaptchaResult(FALSE, FALSE, "token_required", 0)
    ELSE IF reply.kind = "error" THEN CaptchaResult(FALSE, FALSE, "verification_error", 1)
    ELSE IF ~reply.success THEN CaptchaResult(FALSE, FALSE, "verification_failed", 1)
    ELSE IF action # 0 /\ reply.action # action
    THEN CaptchaResult(FALSE, FALSE, "action_mismatch", 1)
    ELSE IF ScoreTooLow(reply.score, config.score_threshold)
    THEN CaptchaResult(FALSE, FALSE, "score_too_low", 1)
    ELSE CaptchaResult(TRUE, FALSE, "none", 1)

\* verify_captcha(token, remote_ip, action)
verify_captcha(config, token, action, reply) ==
    IF config.provider = "recaptcha"
    THEN verify_recaptcha_v3(config, token, action, reply)
    ELSE verify_hcaptcha(config, token, reply)

\* No verification has been made yet.
NoCaptcha ==
    [called |-> FALSE,
     config |-> [provider |-> "hcaptcha", secret_key |-> FALSE, enabled |-> FALSE,
                 score_threshold |-> CAPTCHA_SCORE_THRESHOLD],
     token |-> 0, action |-> 0,
     reply |-> [kind |-> "error", success |-> FALSE, action |-> 0, score |-> NoScore],
     result |-> CaptchaResult(FALSE, FALSE, "none", 0)]

\* ------------------------------------------------------------ security/audit
\* _pre_save_state holds nothing under the key; _thread_locals holds neither
\* user nor request.
NoState == [held |-> FALSE, row |-> NoUserRow]
NoContext == [user |-> 0, request |-> 0]

\* The columns of User kept in a row (sender._meta.fields without the
\* primary key; names, role and timestamps are not kept).
ModelFields ==
    {"password", "is_verified", "is_active", "mfa_enabled", "mfa_secret", "backup_codes"}

\* if 'password' in field_name.lower()
IsPasswordField(f) == f = "password"

\* A column's value is None: mfa_secret is the only nullable column kept.
IsNone(f, v) == f = "mfa_secret" /\ v = 0

\* str(value) if value is not None else None
AuditText(f, v) == IF IsNone(f, v) THEN "None" ELSE ToString(v)

\* One field's entry in AuditLog.changes: absent, the sentinel '[CHANGED]',
\* or {'old': ..., 'new': ...}.
NoEntry == [changed |-> FALSE, redacted |-> FALSE, old |-> "", new |-> ""]
Redacted == [changed |-> TRUE, redacted |-> TRUE, old |-> "", new |-> ""]
OldNew(old, new) == [changed |-> TRUE, redacted |-> FALSE, old |-> old, new |-> new]

\* audit_post_save, the loop body: old_value = old_state.get(field_name) is
\* None when the key held nothing; new_value is the instance's attribute.
AuditEntry(f, state, instance) ==
    LET differs == IF state.held THEN state.row[f] # instance[f]
                   ELSE ~IsNone(f, instance[f])
    IN IF ~differs THEN NoEntry
       ELSE IF IsPasswordField(f) THEN Redacted
       ELSE OldNew(IF state.held THEN AuditText(f, state.row[f]) ELSE "None",
                   AuditText(f, instance[f]))

AuditChanges(state, instance) ==
    [f \in ModelFields |-> AuditEntry(f, state, instance)]
NoChanges == [f \in ModelFields |-> NoEntry]
ChangedFields(changes) == {f \in ModelFields : changes[f].changed}

\* log_audit(action, instance, changes): AuditLog.objects.create(
\*     user=get_current_user(), ..., ip_address=get_client_ip(request))
AuditRecord(p, action, u, changes) ==
    [user |-> threadLocals[p].user, action |-> action, model_name |-> "User",
     object_id |-> u, changes |-> changes, ip_address |-> threadLocals[p].request]

\* instance.save(update_fields=...): the UPDATE sets the named columns, all
\* of them when none is named.
UpdateFields(view) == IF view = "mfa_setup" THEN {"mfa_secret"} ELSE ModelFields
WrittenRow(stored, instance, fields) ==
    [f \in DOMAIN stored |-> IF f \in fields THEN instance[f] ELSE stored[f]]

\* --------------------------------------------------------------- scheduling
\* A request is picked up by the lowest-numbered idle worker.
CanStart(p) ==
    /\ req[p].op = "idle"
    /\ \A q \in Procs : q < p => req[q].op # "idle"

InOps(ops) == Cardinality({q \in Procs : req[q].op \in ops})
MfaOps == {"mfa_setup", "mfa_verify", "mfa_disable", "mfa_regen", "mfa_check"}
\* An MFA request writes at most one security event.
EventRoom == Len(events) + InOps(MfaOps) < MaxEvents
EvRoom == Len(evTokens) + InOps({"ev_ct_update", "ev_ct_create"}) < MaxTokens
PrRoom == Len(prTokens) + InOps({"pr_ct_update", "pr_ct_create"}) < MaxTokens

\* The database after migration, no request in flight.
InitDb ==
    /\ debug \in BOOLEAN
    /\ now = 0
    /\ users = [u \in Users |-> NoUserRow]
    /\ evTokens = <<>>
    /\ prTokens = <<>>
    /\ req = [p \in Procs |-> IdleReq]
    /\ resp = NoResp
    /\ evWins = [t \in TokenIds |-> 0]
    /\ prWins = [t \in TokenIds |-> 0]
    /\ evSuperseded = {}
    /\ prSuperseded = {}
    /\ events = <<>>
    /\ secretsIssued = 0
    /\ codeGens = 0
    /\ bkWins = [c \in BackupCodes |-> 0]
    /\ captcha = NoCaptcha
    /\ auditLog = <<>>
    /\ preSaveState = [u \in Users |-> NoState]
    /\ threadLocals = [p \in Procs |-> NoContext]

Init == InitDb /\ purpose \in {"verification", "reset"}
InitAuth == InitDb /\ purpose = "auth"

\* ------------------------------------------------- EmailVerificationToken
\* create_token, first statement: invalidate the user's unused tokens.
EvInvalidate(tokens, u) == InvalidateUnused(tokens, u)

EvCreateUpdate(p) ==
    /\ req[p].op = "ev_ct_update"
    /\ evTokens' = EvInvalidate(evTokens, req[p].user)
    /\ req' = [req EXCEPT ![p].op = "ev_ct_create", ![p].pre = Len(evTokens)]
    /\ resp' = NoResp
    /\ UNCHANGED <<debug, purpose, now, users, prTokens, evWins, prWins,
                   evSuperseded, prSuperseded, mfaVars>>
    /\ UNCHANGED <<captcha, auditVars>>

\* create_token, second statement: insert the new token; then the calling
\* view sends the mail (best effort) and answers.
EvCreateInsert(p) ==
    /\ req[p].op = "ev_ct_create"
    /\ evTokens' = Append(evTokens, NewToken(req[p].user, EV_TTL))
    /\ evSuperseded' = evSuperseded \cup TokensOf(evTokens, req[p].user, req[p].pre)
    /\ resp' = IF req[p].view = "register"
               THEN Response("register", 201, "verification_required")
               ELSE Response("resend", 200, "generic")
    /\ req' = [req EXCEPT ![p] = IdleReq]
    /\ UNCHANGED <<debug, purpose, now, users, prTokens, evWins, prWins, prSuperseded, mfaVars>>
    /\ UNCHANGED <<captcha, auditVars>>

\* verify_token, the lookup: objects.get(token, used=False, expires_at > now).
\* VerifyEmailView.get answers 400 when it finds nothing.
EvGet(p, t) ==
    /\ CanStart(p)
    /\ IF TokenGet(evTokens, t)
       THEN /\ req' = [req EXCEPT ![p] = [IdleReq EXCEPT !.op = "ev_save_token",
                                          !.view = "verify_email", !.tok = t]]
            /\ resp' = NoResp
       ELSE /\ resp' = TokResponse("verify_email", 400, TokenError(evTokens, t), t)
            /\ UNCHANGED req
    /\ UNCHANGED <<debug, purpose, now, users, evTokens, prTokens, evWins, prWins,
                   evSuperseded, prSuperseded, mfaVars>>
    /\ UNCHANGED <<captcha, auditVars>>

\* token_obj.used = True; token_obj.save()
EvSaveToken(p) ==
    /\ req[p].op = "ev_save_token"
    /\ evTokens' = [evTokens EXCEPT ![req[p].tok].used = TRUE]
    /\ req' = [req EXCEPT ![p].op = "ev_load_user"]
    /\ resp' = NoResp
    /\ UNCHANGED <<debug, purpose, now, users, prTokens, evWins, prWins,
                   evSuperseded, prSuperseded, mfaVars>>
    /\ UNCHANGED <<captcha, auditVars>>

\* token_obj.user: the related row is fetched on first access.
EvLoadUser(p) ==
    /\ req[p].op = "ev_load_user"
    /\ req' = [req EXCEPT ![p].op = "ev_save_user",
                          ![p].user = evTokens[req[p].tok].user,
                          ![p].snap = users[evTokens[req[p].tok].user]]
    /\ resp' = NoResp
    /\ UNCHANGED <<debug, purpose, now, users, evTokens, prTokens, evWins, prWins,
                   evSuperseded, prSuperseded, mfaVars>>
    /\ UNCHANGED <<captcha, auditVars>>

\* token_obj.user.is_verified = True; token_obj.user.save(); return the user.
EvSaveUser(p) ==
    /\ req[p].op = "ev_save_user"
    /\ users' = [users EXCEPT ![req[p].user] = [req[p].snap EXCEPT !.is_verified = TRUE]]
    /\ evWins' = [evWins EXCEPT ![req[p].tok] = @ + 1]
    /\ resp' = TokResponse("verify_email", 200, "verified", req[p].tok)
    /\ req' = [req EXCEPT ![p] = IdleReq]
    /\ UNCHANGED <<debug, purpose, now, evTokens, prTokens, prWins, evSuperseded, prSuperseded, mfaVars>>
    /\ UNCHANGED <<captcha, auditVars>>

\* token_obj.user.save() raises (the database refuses the write): verify_token
\* runs in no transaction and catches nothing, so the token stays saved and
\* the exception leaves the view as a 500.
EvSaveUserFails(p) ==
    /\ req[p].op = "ev_save_user"
    /\ resp' = TokResponse("verify_email", 500, "server_error", req[p].tok)
    /\ req' = [req EXCEPT ![p] = IdleReq]
    /\ UNCHANGED <<debug, purpose, now, users, evTokens, prTokens, tokHist, mfaVars>>
    /\ UNCHANGED <<captcha, auditVars>>

\* ---------------------------------------------------------- RegisterView
\* serializer.save() inserts the row and sets the password; the view then
\* saves is_verified = settings.DEBUG.  The three writes build a row no other
\* request has a token for, and are one step here.
RegisterCreate(p, u, pw) ==
    /\ CanStart(p)
    /\ IF users[u].exists
       THEN /\ resp' = Response("register", 400, "validation_error")
            /\ UNCHANGED <<users, req>>
       ELSE /\ users' = [users EXCEPT ![u] =
                           [NoUserRow EXCEPT !.exists = TRUE,
                                             !.password = make_password(pw),
                                             !.is_verified = debug]]
            /\ IF debug
               THEN /\ resp' = Response("register", 201, "registered")
                    /\ UNCHANGED req
               ELSE /\ EvRoom
                    /\ req' = [req EXCEPT ![p] = [IdleReq EXCEPT !.op = "ev_ct_update",
                                                  !.view = "register", !.user = u]]
                    /\ resp' = NoResp
    /\ UNCHANGED <<debug, purpose, now, evTokens, prTokens, evWins, prWins,
                   evSuperseded, prSuperseded, mfaVars>>
    /\ UNCHANGED <<captcha, auditVars>>

\* ------------------------------------------------ ResendVerificationView
ResendVerification(p, email) ==
    /\ CanStart(p)
    /\ LET u == UserByEmail(email) IN
       IF email = 0
       THEN /\ resp' = Response("resend", 400, "email_required")
            /\ UNCHANGED req
       ELSE IF u = 0
       THEN /\ resp' = Response("resend", 200, "generic")
            /\ UNCHANGED req
       ELSE IF users[u].is_verified
       THEN /\ resp' = Response("resend", 200, "already_verified")
            /\ UNCHANGED req
       ELSE IF debug
       THEN /\ resp' = Response("resend", 200, "generic")
            /\ UNCHANGED req
       ELSE /\ EvRoom
            /\ req' = [req EXCEPT ![p] = [IdleReq EXCEPT !.op = "ev_ct_update",
                                          !.view = "resend", !.user = u]]
            /\ resp' = NoResp
    /\ UNCHANGED <<debug, purpose, now, users, evTokens, prTokens, evWins, prWins,
                   evSuperseded, prSuperseded, mfaVars>>
    /\ UNCHANGED <<captcha, auditVars>>

\* ----------------------------------------------------- PasswordResetToken
PrInvalidate(tokens, u) == InvalidateUnused(tokens, u)

\* PasswordResetRequestView.post up to the user lookup.
PasswordResetRequest(p, email) ==
    /\ CanStart(p)
    /\ LET u == UserByEmail(email) IN
       IF email = 0
       THEN /\ resp' = Response("reset_request", 400, "email_required")
            /\ UNCHANGED req
       ELSE IF u = 0
       THEN /\ resp' = Response("reset_request", 200, "generic")
            /\ UNCHANGED req
       ELSE /\ PrRoom
            /\ req' = [req EXCEPT ![p] = [IdleReq EXCEPT !.op = "pr_ct_update",
                                          !.view = "reset_request", !.user = u]]
            /\ resp' = NoResp
    /\ UNCHANGED <<debug, purpose, now, users, evTokens, prTokens, evWins, prWins,
                   evSuperseded, prSuperseded, mfaVars>>
    /\ UNCHANGED <<captcha, auditVars>>

\* create_token, first statement.
PrCreateUpdate(p) ==
    /\ req[p].op = "pr_ct_update"
    /\ prTokens' = PrInvalidate(prTokens, req[p].user)
    /\ req' = [req EXCEPT ![p].op = "pr_ct_create", ![p].pre = Len(prTokens)]
    /\ resp' = NoResp
    /\ UNCHANGED <<debug, purpose, now, users, evTokens, evWins, prWins,
                   evSuperseded, prSuperseded, mfaVars>>
    /\ UNCHANGED <<captcha, auditVars>>

\* create_token, second statement; the view then mails the link and answers.
PrCreateInsert(p) ==
    /\ req[p].op = "pr_ct_create"
    /\ prTokens' = Append(prTokens, NewToken(req[p].user, PR_TTL))
    /\ prSuperseded' = prSuperseded \cup TokensOf(prTokens, req[p].user, req[p].pre)
    /\ resp' = Response("reset_request", 200, "generic")
    /\ req' = [req EXCEPT ![p] = IdleReq]
    /\ UNCHANGED <<debug, purpose, now, users, evTokens, evWins, prWins, evSuperseded, mfaVars>>
    /\ UNCHANGED <<captcha, auditVars>>

\* (mutant) a validation that consumes the token it finds.
PrValidate_Consuming(p, t) ==
    /\ CanStart(p)
    /\ resp' = IF TokenGet(prTokens, t)
               THEN TokResponse("reset_validate", 200, "valid", t)
               ELSE TokResponse("reset_validate", 400, "invalid_or_expired", t)
    /\ prTokens' = IF TokenGet(prTokens, t)
                   THEN [prTokens EXCEPT ![t].used = TRUE]
                   ELSE prTokens
    /\ UNCHANGED <<debug, purpose, now, users, evTokens, req, evWins, prWins,
                   evSuperseded, prSuperseded, mfaVars>>
    /\ UNCHANGED <<captcha, auditVars>>

\* PasswordResetConfirmView.get: PasswordResetToken.verify_token, one read.
PrValidate(p, t) ==
    /\ CanStart(p)
    /\ resp' = IF TokenGet(prTokens, t)
               THEN TokResponse("reset_validate", 200, "valid", t)
               ELSE TokResponse("reset_validate", 400, TokenError(prTokens, t), t)
    /\ UNCHANGED <<debug, purpose, now, users, evTokens, prTokens, req, evWins, prWins,
                   evSuperseded, prSuperseded, mfaVars>>
    /\ UNCHANGED <<captcha, auditVars>>

\* PasswordResetConfirmView.post: the length check, then reset_password's
\* lookup of the token (verify_token).
PrGet(p, t, pw) ==
    /\ CanStart(p)
    /\ IF pw = 0
       THEN /\ resp' = TokResponse("reset_confirm", 400, "password_too_short", t)
            /\ UNCHANGED req
       ELSE IF TokenGet(prTokens, t)
       THEN /\ req' = [req EXCEPT ![p] = [IdleReq EXCEPT !.op = "pr_load_user",
                                          !.view = "reset_confirm", !.tok = t,
                                          !.pw = pw]]
            /\ resp' = NoResp
       ELSE /\ resp' = TokResponse("reset_confirm", 400, TokenError(prTokens, t), t)
            /\ UNCHANGED req
    /\ UNCHANGED <<debug, purpose, now, users, evTokens, prTokens, evWins, prWins,
                   evSuperseded, prSuperseded, mfaVars>>
    /\ UNCHANGED <<captcha, auditVars>>

\* user = token_obj.user: the related row is fetched.
PrLoadUser(p) ==
    /\ req[p].op = "pr_load_user"
    /\ req' = [req EXCEPT ![p].op = "pr_save_user",
                          ![p].user = prTokens[req[p].tok].user,
                          ![p].snap = users[prTokens[req[p].tok].user]]
    /\ resp' = NoResp
    /\ UNCHANGED <<debug, purpose, now, users, evTokens, prTokens, evWins, prWins,
                   evSuperseded, prSuperseded, mfaVars>>
    /\ UNCHANGED <<captcha, auditVars>>

\* user.password = make_password(new_password); user.save()
PrSaveUser(p) ==
    /\ req[p].op = "pr_save_user"
    /\ users' = [users EXCEPT ![req[p].user] =
                    [req[p].snap EXCEPT !.password = make_password(req[p].pw)]]
    /\ req' = [req EXCEPT ![p].op = "pr_save_token"]
    /\ resp' = NoResp
    /\ UNCHANGED <<debug, purpose, now, evTokens, prTokens, evWins, prWins,
                   evSuperseded, prSuperseded, mfaVars>>
    /\ UNCHANGED <<captcha, auditVars>>

\* token_obj.used = True; token_obj.save()
PrSaveToken(p) ==
    /\ req[p].op = "pr_save_token"
    /\ prTokens' = [prTokens EXCEPT ![req[p].tok].used = TRUE]
    /\ req' = [req EXCEPT ![p].op = "pr_invalidate"]
    /\ resp' = NoResp
    /\ UNCHANGED <<debug, purpose, now, users, evTokens, evWins, prWins,
                   evSuperseded, prSuperseded, mfaVars>>
    /\ UNCHANGED <<captcha, auditVars>>

\* filter(user=user, used=False).update(used=True); return user.
PrInvalidateOthers(p) ==
    /\ req[p].op = "pr_invalidate"
    /\ prTokens' = PrInvalidate(prTokens, req[p].user)
    /\ prWins' = [prWins EXCEPT ![req[p].tok] = @ + 1]
    /\ resp' = TokResponse("reset_confirm", 200, "reset_ok", req[p].tok)
    /\ req' = [req EXCEPT ![p] = IdleReq]
    /\ UNCHANGED <<debug, purpose, now, users, evTokens, evWins, evSuperseded, prSuperseded, mfaVars>>
    /\ UNCHANGED <<captcha, auditVars>>

\* ---------------------------------------------------------------- LoginView
\* (mutant) a login that does not look at is_verified.
RequiresVerification_Never(u) == FALSE

\* if not settings.DEBUG and not user.is_verified
RequiresVerification(u) == ~debug /\ ~users[u].is_verified

\* ModelBackend.authenticate: the user of that email when the password
\* matches and the account is active.
ModelBackendUser(email, pw) ==
    LET u == UserByEmail(email) IN
    IF u # 0 /\ check_password(pw, users[u].password) /\ users[u].is_active
    THEN u ELSE 0

\* LoginView.post.  authenticate() first asks AxesStandaloneBackend, which
\* refuses a locked-out request (locked; the attempt counter is kept by
\* django-axes, outside this repository), then ModelBackend.  The view reads
\* no MFA field of the request or of the user and writes nothing.
Login(p, email, pw, locked) ==
    /\ CanStart(p)
    /\ LET u == IF locked THEN 0 ELSE ModelBackendUser(email, pw) IN
       resp' = IF email = 0 \/ pw = 0
               THEN Response("login", 400, "credentials_required")
               ELSE IF u = 0
               THEN Response("login", 401, "invalid_credentials")
               ELSE IF ~users[u].is_active
               THEN UserResponse("login", 401, "account_disabled", u)
               ELSE IF RequiresVerification(u)
               THEN UserResponse("login", 403, "email_not_verified", u)
               ELSE UserResponse("login", 200, "tokens", u)
    /\ UNCHANGED <<debug, purpose, now, users, evTokens, prTokens, req, tokHist, mfaVars>>
    /\ UNCHANGED <<captcha, auditVars>>

\* ------------------------------------------------------------ MFA endpoints
\* permissions.IsAuthenticated: the request bears an access token of the
\* user.  RegisterView answers every registration with a token pair, so a user
\* bears one from the moment the registration has been answered; JWT
\* authentication refuses an inactive user.
IsAuthenticated(u) ==
    /\ users[u].exists
    /\ users[u].is_active
    /\ \A q \in Procs : ~(req[q].view = "register" /\ req[q].user = u)

\* Room left for the values a request of this kind may draw.
MfaRoom(op) ==
    /\ EventRoom
    /\ op = "mfa_setup" => secretsIssued + InOps({"mfa_setup"}) < MaxSecrets
    /\ op \in {"mfa_verify", "mfa_regen"} =>
           codeGens + InOps({"mfa_verify", "mfa_regen"}) < MaxCodeGens

\* JWT authentication loads request.user when the request starts; the view
\* works on that object.
MfaLoad(p, u, op) ==
    /\ CanStart(p)
    /\ IsAuthenticated(u)
    /\ MfaRoom(op)
    /\ req' = [req EXCEPT ![p] = [IdleReq EXCEPT !.op = op, !.view = op,
                                                 !.user = u, !.snap = users[u]]]
    /\ resp' = NoResp
    /\ UNCHANGED <<debug, purpose, now, users, evTokens, prTokens, tokHist, mfaVars>>
    /\ UNCHANGED <<captcha, auditVars>>

\* MFASetupView.post: save(update_fields=['mfa_secret']).
MFASetup(p) ==
    /\ req[p].op = "mfa_setup"
    /\ LET u == req[p].user
           user == req[p].snap
       IN IF user.mfa_enabled
          THEN /\ resp' = UserResponse("mfa_setup", 400, "already_enabled", u)
               /\ UNCHANGED <<users, secretsIssued>>
          ELSE /\ secretsIssued' = secretsIssued + 1
               /\ users' = [users EXCEPT ![u].mfa_secret = secretsIssued + 1]
               /\ resp' = UserResponse("mfa_setup", 200, "secret", u)
    /\ req' = [req EXCEPT ![p] = IdleReq]
    /\ UNCHANGED <<debug, purpose, now, evTokens, prTokens, tokHist,
                   events, codeGens, bkWins>>
    /\ UNCHANGED <<captcha, auditVars>>

\* MFAVerifyView.post: save(update_fields=['mfa_enabled', 'backup_codes']),
\* then log_mfa_enabled; log_mfa_failed on a wrong code.
MFAVerify(p, code, written) ==
    /\ req[p].op = "mfa_verify"
    /\ LET u == req[p].user
           user == req[p].snap
       IN IF code = NoCode
          THEN /\ resp' = UserResponse("mfa_verify", 400, "code_required", u)
               /\ UNCHANGED <<users, events, codeGens>>
          ELSE IF user.mfa_secret = 0
          THEN /\ resp' = UserResponse("mfa_verify", 400, "setup_first", u)
               /\ UNCHANGED <<users, events, codeGens>>
          ELSE IF verify_totp(user.mfa_secret, code)
          THEN /\ codeGens' = codeGens + 1
               /\ users' = [users EXCEPT
                     ![u].mfa_enabled = TRUE,
                     ![u].backup_codes =
                         hash_backup_codes(generate_backup_codes(codeGens + 1))]
               /\ events' = Logged("mfa_enabled", u, written)
               /\ resp' = AfterLog(written,
                              UserResponse("mfa_verify", 200, "mfa_enabled", u))
          ELSE /\ events' = Logged("mfa_failed", u, written)
               /\ resp' = AfterLog(written,
                              UserResponse("mfa_verify", 400, "invalid_code", u))
               /\ UNCHANGED <<users, codeGens>>
    /\ req' = [req EXCEPT ![p] = IdleReq]
    /\ UNCHANGED <<debug, purpose, now, evTokens, prTokens, tokHist,
                   secretsIssued, bkWins>>
    /\ UNCHANGED <<captcha, auditVars>>

\* (mutant) a disable that accepts any TOTP code.
DisableCodeOk_Any(secret, code) == TRUE

\* if not code or not verify_totp(user.mfa_secret, code): refuse
DisableCodeOk(secret, code) == code # NoCode /\ verify_totp(secret, code)

\* MFADisableView.post:
\* save(update_fields=['mfa_enabled', 'mfa_secret', 'backup_codes']).
MFADisable(p, pw, code, written) ==
    /\ req[p].op = "mfa_disable"
    /\ LET u == req[p].user
           user == req[p].snap
       IN IF ~user.mfa_enabled
          THEN /\ resp' = UserResponse("mfa_disable", 400, "not_enabled", u)
               /\ UNCHANGED <<users, events>>
          ELSE IF pw = 0 \/ ~check_password(pw, user.password)
          THEN /\ resp' = UserResponse("mfa_disable", 403, "invalid_password", u)
               /\ UNCHANGED <<users, events>>
          ELSE IF ~DisableCodeOk(user.mfa_secret, code)
          THEN /\ events' = Logged("mfa_failed", u, written)
               /\ resp' = AfterLog(written,
                              UserResponse("mfa_disable", 403, "invalid_mfa_code", u))
               /\ UNCHANGED users
          ELSE /\ users' = [users EXCEPT ![u].mfa_enabled = FALSE,
                                         ![u].mfa_secret = 0,
                                         ![u].backup_codes = <<>>]
               /\ events' = Logged("mfa_disabled", u, written)
               /\ resp' = AfterLog(written,
                              UserResponse("mfa_disable", 200, "mfa_disabled", u))
    /\ req' = [req EXCEPT ![p] = IdleReq]
    /\ UNCHANGED <<debug, purpose, now, evTokens, prTokens, tokHist,
                   secretsIssued, codeGens, bkWins>>
    /\ UNCHANGED <<captcha, auditVars>>

\* MFABackupCodesView.post: save(update_fields=['backup_codes']).
MFABackupCodes(p, code, written) ==
    /\ req[p].op = "mfa_regen"
    /\ LET u == req[p].user
           user == req[p].snap
       IN IF ~user.mfa_enabled
          THEN /\ resp' = UserResponse("mfa_regen", 400, "not_enabled", u)
               /\ UNCHANGED <<users, events, codeGens>>
          ELSE IF code = NoCode \/ ~verify_totp(user.mfa_secret, code)
          THEN /\ events' = Logged("mfa_failed", u, written)
               /\ resp' = AfterLog(written,
                              UserResponse("mfa_regen", 403, "invalid_mfa_code", u))
               /\ UNCHANGED <<users, codeGens>>
          ELSE /\ codeGens' = codeGens + 1
               /\ users' = [users EXCEPT ![u].backup_codes =
                               hash_backup_codes(generate_backup_codes(codeGens + 1))]
               /\ resp' = UserResponse("mfa_regen", 200, "backup_codes", u)
               /\ UNCHANGED events
    /\ req' = [req EXCEPT ![p] = IdleReq]
    /\ UNCHANGED <<debug, purpose, now, evTokens, prTokens, tokHist,
                   secretsIssued, bkWins>>
    /\ UNCHANGED <<captcha, auditVars>>

\* MFAMixin.verify_mfa(request), as called by a view that mixes it in and
\* answers 403 'MFA required' on failure.  A backup code is consumed with
\* codes.pop(index); save(update_fields=['backup_codes']), written from the
\* list this request loaded.
VerifyMfa(p, code, written) ==
    /\ req[p].op = "mfa_check"
    /\ LET u == req[p].user
           user == req[p].snap
           index == verify_backup_code(code, user.backup_codes)
       IN IF ~user.mfa_enabled
          THEN /\ resp' = UserResponse("mfa_check", 200, "mfa_not_required", u)
               /\ UNCHANGED <<users, events, bkWins>>
          ELSE IF code = NoCode
          THEN /\ resp' = UserResponse("mfa_check", 403, "mfa_code_required", u)
               /\ UNCHANGED <<users, events, bkWins>>
          ELSE IF user.mfa_secret # 0 /\ verify_totp(user.mfa_secret, code)
          THEN /\ resp' = UserResponse("mfa_check", 200, "totp_ok", u)
               /\ UNCHANGED <<users, events, bkWins>>
          ELSE IF Len(user.backup_codes) > 0 /\ index # 0
          THEN /\ users' = [users EXCEPT ![u].backup_codes =
                               PopIndex(user.backup_codes, index)]
               /\ bkWins' = [bkWins EXCEPT ![NormalizeCode(code)] =
                               IF @ >= 2 THEN 2 ELSE @ + 1]
               /\ resp' = UserResponse("mfa_check", 200, "used_backup_code", u)
               /\ UNCHANGED events
          ELSE /\ events' = Logged("mfa_failed", u, written)
               /\ resp' = AfterLog(written,
                              UserResponse("mfa_check", 403, "invalid_mfa_code", u))
               /\ UNCHANGED <<users, bkWins>>
    /\ req' = [req EXCEPT ![p] = IdleReq]
    /\ UNCHANGED <<debug, purpose, now, evTokens, prTokens, tokHist,
                   secretsIssued, codeGens>>
    /\ UNCHANGED <<captcha, auditVars>>

\* ---------------------------------------------------------- CurrentUserView
\* PUT/PATCH on the current user: get_object returns request.user, the object
\* loaded when the request started; UserUpdateSerializer.update sets the
\* submitted fields (username, names, role: none of them kept here) and calls
\* instance.save(), which writes every column of the loaded object.
UserUpdate(p) ==
    /\ req[p].op = "user_update"
    /\ users' = [users EXCEPT ![req[p].user] = req[p].snap]
    /\ resp' = UserResponse("user_update", 200, "updated", req[p].user)
    /\ req' = [req EXCEPT ![p] = IdleReq]
    /\ UNCHANGED <<debug, purpose, now, evTokens, prTokens, tokHist, mfaVars>>
    /\ UNCHANGED <<captcha, auditVars>>

\* ------------------------------------------- requests under AuditMiddleware
\* Room left in the audit log for the records the requests in flight may add.
AuditOps == {"change_password", "mfa_setup", "user_update"}
AuditSteps == {"au_pre", "au_write", "au_post"}
AuditRoom == Len(auditLog) + InOps(AuditSteps) < MaxAuditLogs

\* RegisterView.create under the middleware, for a request without a session
\* user: User.objects.create (audited as 'create'), set_password and save
\* (audited as an update of password), is_verified = settings.DEBUG and save
\* (audited when the flag changed), and outside debug mode create_token.  The
\* row is reachable by no other request before the view answers: one step.
AuditedRegister(p, u, pw, ip) ==
    /\ CanStart(p)
    /\ ~users[u].exists
    /\ Len(auditLog) + InOps(AuditSteps) + 3 <= MaxAuditLogs
    /\ ~debug => EvRoom
    /\ LET created == [NoUserRow EXCEPT !.exists = TRUE]
           withPw == [created EXCEPT !.password = make_password(pw)]
           final == [withPw EXCEPT !.is_verified = debug]
           ctx == [user |-> 0, request |-> ip]
           rec(action, changes) ==
               [user |-> ctx.user, action |-> action, model_name |-> "User",
                object_id |-> u, changes |-> changes, ip_address |-> ctx.request]
           held(row) == [held |-> TRUE, row |-> row]
           log1 == Append(auditLog, rec("create", NoChanges))
           log2 == Append(log1, rec("update", AuditChanges(held(created), withPw)))
           last == AuditChanges(held(withPw), final)
       IN /\ users' = [users EXCEPT ![u] = final]
          /\ auditLog' = IF ChangedFields(last) # {}
                         THEN Append(log2, rec("update", last)) ELSE log2
    /\ evTokens' = IF debug THEN evTokens
                   ELSE Append(EvInvalidate(evTokens, u), NewToken(u, EV_TTL))
    /\ resp' = Response("register", 201, "registered")
    /\ UNCHANGED <<debug, purpose, now, prTokens, req, tokHist, mfaVars, captcha,
                   preSaveState, threadLocals>>

\* AuditMiddleware.__call__ up to get_response, JWT authentication loading
\* request.user, and the view up to its user.save(): ChangePasswordView.update
\* (set_password), MFASetupView.post (a new secret), CurrentUserView PUT/PATCH
\* (no column kept here is changed).  session is request.user as the
\* middleware sees it: the session's user, 0 for an anonymous session.
AuditedRequest(p, u, op, ip, session, old, new) ==
    /\ CanStart(p)
    /\ IsAuthenticated(u)
    /\ AuditRoom
    /\ op = "mfa_setup" => secretsIssued + Cardinality({q \in Procs : req[q].view = "mfa_setup"}) < MaxSecrets
    /\ LET user == users[u] IN
       IF op = "change_password" /\ ~check_password(old, user.password)
       THEN /\ resp' = UserResponse(op, 400, "old_password_incorrect", u)
            /\ threadLocals' = [threadLocals EXCEPT ![p] = NoContext]
            /\ UNCHANGED <<req, secretsIssued>>
       ELSE IF op = "mfa_setup" /\ user.mfa_enabled
       THEN /\ resp' = UserResponse(op, 400, "already_enabled", u)
            /\ threadLocals' = [threadLocals EXCEPT ![p] = NoContext]
            /\ UNCHANGED <<req, secretsIssued>>
       ELSE /\ threadLocals' = [threadLocals EXCEPT
                                   ![p] = [user |-> session, request |-> ip]]
            /\ secretsIssued' = IF op = "mfa_setup" THEN secretsIssued + 1
                                ELSE secretsIssued
            /\ req' = [req EXCEPT ![p] =
                  [IdleReq EXCEPT
                      !.op = "au_pre", !.view = op, !.user = u,
                      !.snap = IF op = "change_password"
                               THEN [user EXCEPT !.password = make_password(new)]
                               ELSE IF op = "mfa_setup"
                               THEN [user EXCEPT !.mfa_secret = secretsIssued + 1]
                               ELSE user]]
            /\ resp' = NoResp
    /\ UNCHANGED <<debug, purpose, now, users, evTokens, prTokens, tokHist,
                   events, codeGens, bkWins, captcha, auditLog, preSaveState>>

\* audit_pre_save: old_instance = sender.objects.get(pk=instance.pk); its
\* columns are stored under the key "User:<pk>".
AuditPreSave(p) ==
    /\ req[p].op = "au_pre"
    /\ preSaveState' = [preSaveState EXCEPT
                           ![req[p].user] = [held |-> TRUE, row |-> users[req[p].user]]]
    /\ req' = [req EXCEPT ![p].op = "au_write"]
    /\ resp' = NoResp
    /\ UNCHANGED <<debug, purpose, now, users, evTokens, prTokens, tokHist, mfaVars,
                   captcha, auditLog, threadLocals>>

\* Model.save: the UPDATE of the row.
AuditWrite(p) ==
    /\ req[p].op = "au_write"
    /\ users' = [users EXCEPT ![req[p].user] =
                    WrittenRow(@, req[p].snap, UpdateFields(req[p].view))]
    /\ req' = [req EXCEPT ![p].op = "au_post", ![p].before = users[req[p].user]]
    /\ resp' = NoResp
    /\ UNCHANGED <<debug, purpose, now, evTokens, prTokens, tokHist, mfaVars,
                   captcha, auditVars>>

\* The UPDATE raises (the database refuses the write): no post_save is sent,
\* the key stays in _pre_save_state.  When the exception is turned into a 500
\* response below the middleware, __call__ goes on to its clean-up; when it
\* reaches the middleware (propagates: DEBUG_PROPAGATE_EXCEPTIONS, or an
\* exception that is no Exception subclass), __call__ is left at
\* self.get_response(request) and the clean-up is not run.
AuditWriteFails(p, propagates) ==
    /\ req[p].op = "au_write"
    /\ threadLocals' = IF propagates THEN threadLocals
                       ELSE [threadLocals EXCEPT ![p] = NoContext]
    /\ resp' = UserResponse(req[p].view, 500, "server_error", req[p].user)
    /\ req' = [req EXCEPT ![p] = IdleReq]
    /\ UNCHANGED <<debug, purpose, now, users, evTokens, prTokens, tokHist, mfaVars,
                   captcha, auditLog, preSaveState>>

\* audit_post_save for an update: pop the key, diff the kept state against
\* the instance, log_audit('update') if any field differs; then the view
\* answers and the middleware clears its thread-local context.
AuditPostSave(p) ==
    /\ req[p].op = "au_post"
    /\ LET u == req[p].user
           changes == AuditChanges(preSaveState[u], req[p].snap)
       IN /\ preSaveState' = [preSaveState EXCEPT ![u] = NoState]
          /\ auditLog' = IF ChangedFields(changes) # {}
                         THEN Append(auditLog, AuditRecord(p, "update", u, changes))
                         ELSE auditLog
          /\ resp' = UserResponse(req[p].view, 200, "saved", u)
    /\ threadLocals' = [threadLocals EXCEPT ![p] = NoContext]
    /\ req' = [req EXCEPT ![p] = IdleReq]
    /\ UNCHANGED <<debug, purpose, now, users, evTokens, prTokens, tokHist, mfaVars,
                   captcha>>

\* ------------------------------------------------------------ security/gdpr
\* DataExportView.get: export_user_data reads the user's data and ends with
\* log_data_export(user, None).
DataExport(p, u, written) ==
    /\ CanStart(p)
    /\ IsAuthenticated(u)
    /\ EventRoom
    /\ events' = Logged("data_export", u, written)
    /\ resp' = AfterLog(written, UserResponse("data_export", 200, "data", u))
    /\ UNCHANGED <<debug, purpose, now, users, evTokens, prTokens, req, tokHist,
                   secretsIssued, codeGens, bkWins>>
    /\ UNCHANGED <<captcha, auditVars>>

\* SecurityEvent.objects.filter(user=user).update(user=None,
\*     details={'anonymized': True, 'original_user': user.email})
AnonymizeEvents(evs, u) ==
    [i \in 1..Len(evs) |->
        IF evs[i].user = u
        THEN [evs[i] EXCEPT !.user = 0,
                            !.details = [anonymized |-> TRUE, original_user |-> u]]
        ELSE evs[i]]

\* user.delete(): on_delete=SET_NULL clears the user link of the events that
\* still point at the user.
SetNullEvents(evs, u) ==
    [i \in 1..Len(evs) |-> IF evs[i].user = u THEN [evs[i] EXCEPT !.user = 0]
                                              ELSE evs[i]]

\* user.delete(): on_delete=CASCADE removes the user's tokens; a removed row
\* keeps its place in the table as a row no lookup can return.
DeletedToken == [user |-> 0, used |-> TRUE, expires_at |-> 0]
CascadeTokens(tokens, u) ==
    [i \in 1..Len(tokens) |-> IF tokens[i].user = u THEN DeletedToken ELSE tokens[i]]

\* AccountDeletionView.post and delete_user_account, which runs in one
\* transaction (@transaction.atomic): anonymise the user's events, log the
\* deletion, delete the user.  When the logging write raises, the
\* transaction is rolled back and the exception leaves the view as a 500.
\* Taken while no other request is in flight.
AccountDeletion(p, u, pw, written) ==
    /\ CanStart(p)
    /\ \A q \in Procs : req[q].op = "idle"
    /\ IsAuthenticated(u)
    /\ EventRoom
    /\ IF pw = 0
       THEN /\ resp' = UserResponse("account_deletion", 400, "password_required", u)
            /\ UNCHANGED <<users, evTokens, prTokens, events>>
       ELSE IF ~check_password(pw, users[u].password)
       THEN /\ resp' = UserResponse("account_deletion", 403, "invalid_password", u)
            /\ UNCHANGED <<users, evTokens, prTokens, events>>
       ELSE IF ~written
       THEN /\ resp' = AfterLog(FALSE,
                           UserResponse("account_deletion", 200, "deletion_completed", u))
            /\ UNCHANGED <<users, evTokens, prTokens, events>>
       ELSE /\ events' = SetNullEvents(
                             Append(AnonymizeEvents(events, u),
                                    SecurityEvent("account_deletion", u)), u)
            /\ users' = [users EXCEPT ![u] = NoUserRow]
            /\ evTokens' = CascadeTokens(evTokens, u)
            /\ prTokens' = CascadeTokens(prTokens, u)
            /\ resp' = UserResponse("account_deletion", 200, "deletion_completed", u)
    /\ UNCHANGED <<debug, purpose, now, req, tokHist, secretsIssued, codeGens, bkWins>>
    /\ UNCHANGED <<captcha, auditVars>>

\* The clock moves on by one TOTP interval.
TotpTick ==
    /\ now < MaxTotpSteps * TOTP_INTERVAL
    /\ now' = now + TOTP_INTERVAL
    /\ resp' = NoResp
    /\ UNCHANGED <<debug, purpose, users, evTokens, prTokens, req, tokHist, mfaVars>>
    /\ UNCHANGED <<captcha, auditVars>>

\* -------------------------------------------------------------------- time
\* The clock advances to the instant at which some token of the purpose
\* being run expires (no other instant changes what a lookup returns).
ExpiryInstants ==
    IF purpose = "verification"
    THEN {evTokens[i].expires_at : i \in 1..Len(evTokens)}
    ELSE {prTokens[i].expires_at : i \in 1..Len(prTokens)}

TickToExpiry ==
    /\ \E t \in ExpiryInstants : t > now /\ now' = t
    /\ resp' = NoResp
    /\ UNCHANGED <<debug, purpose, users, evTokens, prTokens, req, evWins, prWins,
                   evSuperseded, prSuperseded, mfaVars>>
    /\ UNCHANGED <<captcha, auditVars>>

\* ----------------------------------------------------------- specification
\* Registration and resend serve both purposes' runs; the flows of the two
\* token purposes touch disjoint token tables and are explored one per run.
VerificationNext ==
    \/ \E p \in Procs, e \in EmailInputs : ResendVerification(p, e)
    \/ \E p \in Procs, t \in TokenIds : EvGet(p, t)
    \/ \E p \in Procs : EvSaveToken(p)
    \/ \E p \in Procs : EvLoadUser(p)
    \/ \E p \in Procs : EvSaveUser(p)
    \/ \E p \in Procs : EvSaveUserFails(p)

ResetNext ==
    \/ \E p \in Procs, e \in EmailInputs : PasswordResetRequest(p, e)
    \/ \E p \in Procs : PrCreateUpdate(p)
    \/ \E p \in Procs : PrCreateInsert(p)
    \/ \E p \in Procs, t \in TokenIds : PrValidate(p, t)
    \/ \E p \in Procs, t \in TokenIds, pw \in 0..NumPasswords : PrGet(p, t, pw)
    \/ \E p \in Procs : PrLoadUser(p)
    \/ \E p \in Procs : PrSaveUser(p)
    \/ \E p \in Procs : PrSaveToken(p)
    \/ \E p \in Procs : PrInvalidateOthers(p)

TokenNext ==
    \/ \E p \in Procs, u \in Users : RegisterCreate(p, u, 1)
    \/ \E p \in Procs : EvCreateUpdate(p)
    \/ \E p \in Procs : EvCreateInsert(p)
    \/ purpose = "verification" /\ VerificationNext
    \/ purpose = "reset" /\ ResetNext
    \/ TickToExpiry

SpecTokens == Init /\ [][TokenNext]_vars

\* Registration, email verification, MFA enrolment and login; every
\* security event is written.
LoginMfaOps == {"mfa_setup", "mfa_verify"}

LoginNext ==
    \/ \E p \in Procs, u \in Users : RegisterCreate(p, u, 1)
    \/ \E p \in Procs : EvCreateUpdate(p)
    \/ \E p \in Procs : EvCreateInsert(p)
    \/ \E p \in Procs, t \in TokenIds : EvGet(p, t)
    \/ \E p \in Procs : EvSaveToken(p)
    \/ \E p \in Procs : EvLoadUser(p)
    \/ \E p \in Procs : EvSaveUser(p)
    \/ \E p \in Procs : EvSaveUserFails(p)
    \/ \E p \in Procs, e \in EmailInputs, pw \in 0..NumPasswords, locked \in BOOLEAN :
           Login(p, e, pw, locked)
    \/ \E p \in Procs, u \in MfaUsers, op \in LoginMfaOps : MfaLoad(p, u, op)
    \/ \E p \in Procs : MFASetup(p)
    \/ \E p \in Procs, code \in CodeInputs : MFAVerify(p, code, TRUE)

SpecLogin == InitAuth /\ [][LoginNext]_vars

\* Registration and the MFA endpoints, the clock moving; every security
\* event is written.
MfaNext ==
    \/ \E p \in Procs, u \in MfaUsers : RegisterCreate(p, u, 1)
    \/ \E p \in Procs : EvCreateUpdate(p)
    \/ \E p \in Procs : EvCreateInsert(p)
    \/ \E p \in Procs, u \in MfaUsers, op \in MfaOps : MfaLoad(p, u, op)
    \/ \E p \in Procs : MFASetup(p)
    \/ \E p \in Procs, code \in CodeInputs : MFAVerify(p, code, TRUE)
    \/ \E p \in Procs, pw \in 0..NumPasswords, code \in CodeInputs :
           MFADisable(p, pw, code, TRUE)
    \/ \E p \in Procs, code \in CodeInputs : MFABackupCodes(p, code, TRUE)
    \/ \E p \in Procs, code \in CodeInputs : VerifyMfa(p, code, TRUE)
    \/ TotpTick

SpecMfa == InitAuth /\ [][MfaNext]_vars

\* Registration and the endpoints that move a user's MFA state: setup,
\* verify, disable and regenerate; the clock moving, every security event
\* written.
LifecycleMfaOps == {"mfa_setup", "mfa_verify", "mfa_disable", "mfa_regen"}

LifecycleNext ==
    \/ \E p \in Procs, u \in MfaUsers : RegisterCreate(p, u, 1)
    \/ \E p \in Procs : EvCreateUpdate(p)
    \/ \E p \in Procs : EvCreateInsert(p)
    \/ \E p \in Procs, u \in MfaUsers, op \in LifecycleMfaOps : MfaLoad(p, u, op)
    \/ \E p \in Procs : MFASetup(p)
    \/ \E p \in Procs, code \in CodeInputs : MFAVerify(p, code, TRUE)
    \/ \E p \in Procs, pw \in 0..NumPasswords, code \in CodeInputs :
           MFADisable(p, pw, code, TRUE)
    \/ \E p \in Procs, code \in CodeInputs : MFABackupCodes(p, code, TRUE)
    \/ TotpTick

SpecLifecycle == InitAuth /\ [][LifecycleNext]_vars

\* Registration, MFA enrolment and disabling, data export and account
\* deletion; the write of a security event may fail.
EventMfaOps == {"mfa_setup", "mfa_verify", "mfa_disable"}

EventsNext ==
    \/ \E p \in Procs, u \in MfaUsers : RegisterCreate(p, u, 1)
    \/ \E p \in Procs : EvCreateUpdate(p)
    \/ \E p \in Procs : EvCreateInsert(p)
    \/ \E p \in Procs, u \in MfaUsers, op \in EventMfaOps : MfaLoad(p, u, op)
    \/ \E p \in Procs : MFASetup(p)
    \/ \E p \in Procs, code \in CodeInputs, written \in BOOLEAN :
           MFAVerify(p, code, written)
    \/ \E p \in Procs, pw \in 0..NumPasswords, code \in CodeInputs, written \in BOOLEAN :
           MFADisable(p, pw, code, written)
    \/ \E p \in Procs, u \in MfaUsers, written \in BOOLEAN : DataExport(p, u, written)
    \/ \E p \in Procs, u \in MfaUsers, pw \in 0..NumPasswords, written \in BOOLEAN :
           AccountDeletion(p, u, pw, written)

SpecEvents == InitAuth /\ [][EventsNext]_vars

\* Email verification next to password reset and profile update, for one
\* user.
VerifiedNext ==
    \/ \E p \in Procs, u \in MfaUsers : RegisterCreate(p, u, 1)
    \/ \E p \in Procs : EvCreateUpdate(p)
    \/ \E p \in Procs : EvCreateInsert(p)
    \/ \E p \in Procs, t \in TokenIds : EvGet(p, t)
    \/ \E p \in Procs : EvSaveToken(p)
    \/ \E p \in Procs : EvLoadUser(p)
    \/ \E p \in Procs : EvSaveUser(p)
    \/ \E p \in Procs, e \in MfaUsers : PasswordResetRequest(p, e)
    \/ \E p \in Procs : PrCreateUpdate(p)
    \/ \E p \in Procs : PrCreateInsert(p)
    \/ \E p \in Procs, t \in TokenIds, pw \in Passwords : PrGet(p, t, pw)
    \/ \E p \in Procs : PrLoadUser(p)
    \/ \E p \in Procs : PrSaveUser(p)
    \/ \E p \in Procs : PrSaveToken(p)
    \/ \E p \in Procs : PrInvalidateOthers(p)
    \/ \E p \in Procs, u \in MfaUsers : MfaLoad(p, u, "user_update")
    \/ \E p \in Procs : UserUpdate(p)

SpecVerified == InitAuth /\ [][VerifiedNext]_vars

\* A view calls verify_captcha with the configuration in force, the token and
\* the expected action of the request (0: none), and the provider answers.
CaptchaCheck(config, token, action, reply) ==
    /\ captcha' = [called |-> TRUE, config |-> config, token |-> token,
                   action |-> action, reply |-> reply,
                   result |-> verify_captcha(config, token, action, reply)]
    /\ resp' = NoResp
    /\ UNCHANGED <<debug, purpose, now, users, evTokens, prTokens, req, tokHist,
                   mfaVars, auditVars>>

CaptchaNext ==
    \E config \in CaptchaConfigs, token \in 0..1, action \in 0..NumCaptchaActions,
       reply \in ProviderReplies : CaptchaCheck(config, token, action, reply)

SpecCaptcha == InitAuth /\ [][CaptchaNext]_vars

\* The audited saves of one user: registration, password change, MFA setup
\* and profile update, each request running under AuditMiddleware on a worker
\* thread.
AuditNext ==
    \/ \E p \in Procs, u \in MfaUsers, ip \in 1..NumIps : AuditedRegister(p, u, 1, ip)
    \/ \E p \in Procs, u \in MfaUsers, op \in AuditOps, ip \in 1..NumIps,
          session \in {0} \cup MfaUsers, old \in Passwords, new \in Passwords :
           AuditedRequest(p, u, op, ip, session, old, new)
    \/ \E p \in Procs : AuditPreSave(p)
    \/ \E p \in Procs : AuditWrite(p)
    \/ \E p \in Procs, propagates \in BOOLEAN : AuditWriteFails(p, propagates)
    \/ \E p \in Procs : AuditPostSave(p)

SpecAudit == InitAuth /\ [][AuditNext]_vars

\* ------------------------------------------------------------------ claims
UnusedOf(tokens, u) == {i \in 1..Len(tokens) : tokens[i].user = u /\ ~tokens[i].used}

\* C1: for one password-reset token, at most one call of reset_password
\* returns the user, however the calls on that token interleave.
C1_AtMostOneResetWins == \A t \in TokenIds : prWins[t] <= 1

\* C2: for every email-verification token, at most one call of verify_token
\* returns the user; every other call on it, sequential or concurrent,
\* returns None.
C2_OneVerifyWinner == \A t \in TokenIds : evWins[t] <= 1

\* C3: once create_token(user) has completed, every token of that purpose
\* issued earlier to the user is marked used (so redeeming it fails): of one
\* user's tokens of a purpose, only the most recently issued may be unused.
C3_EarlierTokensUsed ==
    /\ \A i, j \in 1..Len(evTokens) :
          (i < j /\ evTokens[i].user = evTokens[j].user) => evTokens[i].used
    /\ \A i, j \in 1..Len(prTokens) :
          (i < j /\ prTokens[i].user = prTokens[j].user) => prTokens[i].used

\* What create_token does ensure: the tokens the user held when the call
\* issued its first statement are used once the call has completed ...
SupersededAreUsed ==
    /\ \A t \in evSuperseded : evTokens[t].used
    /\ \A t \in prSuperseded : prTokens[t].used

\* ... and a verify_token / reset_password call begun after that does not
\* find such a token.
RedeemOfSupersededFails ==
    \A p \in Procs :
        /\ (req[p].op = "idle" /\ req'[p].op = "ev_save_token")
              => req'[p].tok \notin evSuperseded
        /\ (req[p].op = "idle" /\ req'[p].op = "pr_load_user")
              => req'[p].tok \notin prSuperseded
        /\ (resp'.view = "reset_validate" /\ resp'.status = 200)
              => resp'.tok \notin prSuperseded

SupersededStayInvalid ==
    []SupersededAreUsed /\ [][RedeemOfSupersededFails]_vars

\* C4: in every reachable state each user has at most one unused token per
\* purpose.
C4_AtMostOneUnusedToken ==
    \A u \in Users :
        /\ Cardinality(UnusedOf(evTokens, u)) <= 1
        /\ Cardinality(UnusedOf(prTokens, u)) <= 1

\* C5: a login answered 200 (the token pair issued) is never that of a user
\* with mfa_enabled = true: such a login is rejected until an MFA code has
\* been verified, and LoginView verifies none.
C5_NoTokensWithoutMfa ==
    (resp.view = "login" /\ resp.status = 200) => ~users[resp.user].mfa_enabled

\* C6: ResendVerificationView.post and PasswordResetRequestView.post answer
\* every submitted email with the same status and body, whatever account the
\* email belongs to and whatever its state.
C6_GenericResponse ==
    (resp.view \in {"resend", "reset_request"} /\ resp.body # "email_required")
        => (resp.status = 200 /\ resp.body = "generic")

\* C7 (login part): outside debug mode, a login whose credentials
\* authenticate a user with is_verified = false is answered 403
\* email_not_verified, and so issues no token.
LoginOfUnverifiedIsRefused ==
    (/\ resp'.view = "login"
     /\ resp'.user # 0
     /\ ~debug
     /\ ~users[resp'.user].is_verified)
        => (resp'.status = 403 /\ resp'.body = "email_not_verified")

\* C7 (until part): outside debug mode is_verified becomes true only in the
\* step in which a verify_token call redeems a token.
VerifiedOnlyByRedemption ==
    \A u \in Users :
        (~debug /\ ~users[u].is_verified /\ users'[u].is_verified)
            => \E t \in TokenIds : evWins'[t] = evWins[t] + 1

\* C7: in non-debug mode a login with correct credentials for a user whose
\* is_verified is false returns 403 with code email_not_verified and issues
\* no token, for as long as no verification token of the user was redeemed.
C7_UnverifiedLoginRefused ==
    [][LoginOfUnverifiedIsRefused /\ VerifiedOnlyByRedemption]_vars

\* C7 witness: outside debug mode a login with the right password of an
\* existing unverified user was just answered 403 email_not_verified.
C7_Witness ==
    /\ ~debug
    /\ resp = UserResponse("login", 403, "email_not_verified", resp.user)
    /\ resp.user \in Users
    /\ ~users[resp.user].is_verified

\* C9: each issued backup code makes verify_mfa succeed at most once.
C9_BackupCodeOnce == \A c \in BackupCodes : bkWins[c] <= 1

\* C10: whatever the interleaving of the requests that rewrite backup_codes,
\* once they have all completed no backup code that authenticated is still in
\* a stored list.
C10_NoLostUpdate ==
    (\A p \in Procs : req[p].op = "idle") =>
        \A c \in BackupCodes : \A u \in Users :
            bkWins[c] > 0 =>
                \A i \in 1..Len(users[u].backup_codes) :
                    users[u].backup_codes[i] # make_password(c)

\* C11: verify_token is all-or-nothing: when a call that found its token has
\* ended, also by a failure of the user's save, the token is marked used if
\* and only if the owning user's is_verified is true.
C11_VerifyAllOrNothing ==
    (resp.view = "verify_email" /\ resp.status # 400) =>
        (evTokens[resp.tok].used <=> users[evTokens[resp.tok].user].is_verified)

\* C12: PasswordResetToken.verify_token (the GET of the reset link) is
\* read-only: a validation changes no token, no user and no request in
\* flight, so a token it reports valid is still unused and can be consumed by
\* reset_password.
C12_ValidateReadOnly ==
    [][resp'.view = "reset_validate" =>
          /\ prTokens' = prTokens
          /\ evTokens' = evTokens
          /\ users' = users
          /\ req' = req
          /\ resp'.status = 200 =>
                (~prTokens'[resp'.tok].used /\ prTokens'[resp'.tok].expires_at > now')]_vars

\* C12 witness: a reset token was just validated and is still unused.
C12_Witness ==
    /\ resp = TokResponse("reset_validate", 200, "valid", resp.tok)
    /\ resp.tok \in 1..Len(prTokens)
    /\ ~prTokens[resp.tok].used

\* The user row after a completed disable.
DisabledRow(row) ==
    [row EXCEPT !.mfa_enabled = FALSE, !.mfa_secret = 0, !.backup_codes = <<>>]

\* The password and the TOTP code of a disable request are both valid for the
\* user object the request works on.
DisableInputsValid(user, pw, code) ==
    /\ user.mfa_enabled
    /\ pw # 0 /\ check_password(pw, user.password)
    /\ code # NoCode /\ verify_totp(user.mfa_secret, code)

\* C13: MFADisableView.post for an MFA-enabled user with a missing or wrong
\* TOTP code (whatever the password) answers with an error and leaves the
\* user's MFA fields as they are; it disables MFA only when the password and a
\* current TOTP code are both valid, and then clears mfa_secret and empties
\* backup_codes.  (Stated per step of the view: the step answers
\* 'MFA disabled' exactly for the inputs that are valid, and no input whose
\* validity disagrees with the answer can have produced the step.)
C13_DisableNeedsPasswordAndCode ==
    [][\A p \in Procs :
          (req[p].op = "mfa_disable" /\ req'[p].op = "idle") =>
              LET u == req[p].user
                  user == req[p].snap
                  disabled == resp'.body = "mfa_disabled"
              IN /\ IF disabled
                    THEN users' = [users EXCEPT ![u] = DisabledRow(users[u])]
                    ELSE users' = users /\ resp'.status \in {400, 403}
                 /\ \A pw \in 0..NumPasswords, code \in CodeInputs :
                        (DisableInputsValid(user, pw, code) # disabled)
                            => ~MFADisable(p, pw, code, TRUE)]_vars

\* C13 witness: a disable with a wrong or missing TOTP code was just refused
\* and the user's MFA is still enabled with its secret.
C13_Witness ==
    /\ resp = UserResponse("mfa_disable", 403, "invalid_mfa_code", resp.user)
    /\ resp.user \in Users
    /\ users[resp.user].mfa_enabled
    /\ users[resp.user].mfa_secret # 0

\* The per-user MFA state of the specification's state machine.
MfaState(row) ==
    IF row.mfa_enabled THEN "Enabled"
    ELSE IF row.mfa_secret # 0 THEN "PendingSetup"
    ELSE "Disabled"

\* C14: a user's MFA state changes only along Disabled -> PendingSetup,
\* PendingSetup -> Enabled and Enabled -> Disabled (a new setup while pending
\* stays PendingSetup); while Enabled the stored secret does not change, so
\* startSetup never replaces it and mfa_enabled never becomes true without a
\* pending secret.
C14_MfaStateMachine ==
    [][\A u \in Users :
          (users[u].exists /\ users'[u].exists) =>
              LET from == MfaState(users[u])
                  to == MfaState(users'[u])
              IN \/ /\ from = to
                    /\ from = "Enabled" => users'[u].mfa_secret = users[u].mfa_secret
                 \/ <<from, to>> \in {<<"Disabled", "PendingSetup">>,
                                      <<"PendingSetup", "Enabled">>,
                                      <<"Enabled", "Disabled">>}]_vars

\* C15: when reset_password(token, new_password) returns the user, the user's
\* password hash is that of new_password, the token is used and the user has
\* no unused reset token left; a call refused for its token changes no user
\* and no token.
C15_ResetPostcondition ==
    [][/\ \A p \in Procs :
             (req[p].op = "pr_invalidate" /\ req'[p].op = "idle") =>
                 /\ check_password(req[p].pw, users'[req[p].user].password)
                 /\ prTokens'[req[p].tok].used
                 /\ UnusedOf(prTokens', req[p].user) = {}
       /\ (resp'.view = "reset_confirm" /\ resp'.status = 400) =>
             (users' = users /\ prTokens' = prTokens)]_vars

\* The token views' answers to a token their lookup did not find.
TokenRefusal(view, t) == TokResponse(view, 400, "invalid_or_expired", t)

\* C16: a token expires 24 hours (email verification) or 1 hour (password
\* reset) after it was issued; a verify_token / reset_password call made at or
\* after expires_at is refused and changes nothing, and a call on an unused
\* token made strictly before expires_at is accepted.
C16_RedeemableOnlyUnexpired ==
    [][/\ Len(evTokens') = Len(evTokens) + 1 =>
             evTokens'[Len(evTokens')].expires_at = now + 24 * 3600
       /\ Len(prTokens') = Len(prTokens) + 1 =>
             prTokens'[Len(prTokens')].expires_at = now + 1 * 3600
       /\ \A p \in Procs :
             /\ (req[p].op = "idle" /\ req'[p].op = "ev_save_token") =>
                    now < evTokens[req'[p].tok].expires_at
             /\ (req[p].op = "idle" /\ req'[p].op = "pr_load_user") =>
                    now < prTokens[req'[p].tok].expires_at
       /\ (resp'.view = "reset_validate" /\ resp'.status = 200) =>
             now < prTokens[resp'.tok].expires_at
       /\ resp' = TokenRefusal("verify_email", resp'.tok) =>
             /\ users' = users /\ evTokens' = evTokens /\ req' = req
             /\ resp'.tok \in 1..Len(evTokens) =>
                    (evTokens[resp'.tok].used \/ now >= evTokens[resp'.tok].expires_at)
       /\ resp' \in {TokenRefusal("reset_validate", resp'.tok),
                     TokenRefusal("reset_confirm", resp'.tok)} =>
             /\ users' = users /\ prTokens' = prTokens /\ req' = req
             /\ resp'.tok \in 1..Len(prTokens) =>
                    (prTokens[resp'.tok].used \/ now >= prTokens[resp'.tok].expires_at)]_vars

\* C16 witness: an unused token was just refused because the clock has
\* reached its expires_at.
C16_Witness ==
    \/ /\ resp = TokenRefusal("verify_email", resp.tok)
       /\ resp.tok \in 1..Len(evTokens)
       /\ ~evTokens[resp.tok].used
       /\ now >= evTokens[resp.tok].expires_at
    \/ /\ resp = TokenRefusal("reset_confirm", resp.tok)
       /\ resp.tok \in 1..Len(prTokens)
       /\ ~prTokens[resp.tok].used
       /\ now >= prTokens[resp.tok].expires_at

\* C17: at the verify-email, reset-validate and reset-confirm endpoints a
\* request whose token is unknown, already used or expired gets one and the
\* same answer (status and body), whichever of the three is the case.
C17_TokenFailuresIndistinguishable ==
    [][/\ (resp'.view = "verify_email" /\ req' = req
               /\ ~TokenGet(evTokens, resp'.tok))
             => resp' = TokenRefusal("verify_email", resp'.tok)
       /\ (resp'.view \in {"reset_validate", "reset_confirm"} /\ req' = req
               /\ resp'.body # "password_too_short"
               /\ ~TokenGet(prTokens, resp'.tok))
             => resp' = TokenRefusal(resp'.view, resp'.tok)]_vars

\* C17 witness: a token that had already been used was just refused with the
\* generic answer.
C17_Witness ==
    \/ /\ resp = TokenRefusal("verify_email", resp.tok)
       /\ resp.tok \in 1..Len(evTokens)
       /\ evTokens[resp.tok].used
    \/ /\ resp \in {TokenRefusal("reset_validate", resp.tok),
                    TokenRefusal("reset_confirm", resp.tok)}
       /\ resp.tok \in 1..Len(prTokens)
       /\ prTokens[resp.tok].used

\* C18: at time step t, verify_totp(secret, code) accepts the secret's TOTP
\* value of step t-1, t and t+1 and nothing else: it refuses a value of a
\* step <= t-2 or >= t+2, another secret's value and any other string.
TotpProbeSteps == (TimeStep - 3)..(TimeStep + 3)
C18_TotpWindow ==
    \A s \in 1..MaxSecrets :
        /\ \A k \in TotpProbeSteps :
               verify_totp(s, TotpAt(s, k))
                   <=> k \in {TimeStep - 1, TimeStep, TimeStep + 1}
        /\ \A code \in CodeInputs :
               verify_totp(s, code)
                   <=> code \in {TotpAt(s, TimeStep - 1), TotpAt(s, TimeStep),
                                 TotpAt(s, TimeStep + 1)}

\* C18 witness: the clock has moved past step 0 and an enrolment code was
\* just checked by verify_totp and accepted.
C18_Witness ==
    /\ TimeStep >= 1
    /\ resp = UserResponse("mfa_verify", 200, "mfa_enabled", resp.user)
    /\ resp.user \in Users
    /\ users[resp.user].mfa_enabled

\* C19: logging a security event never fails the calling operation: when the
\* SecurityEvent write fails, MFA verify, MFA disable, data export and
\* account deletion still answer normally, so none of them ever answers with
\* a server error.
EventViews == {"mfa_verify", "mfa_disable", "data_export", "account_deletion"}
C19_LoggingNeverFailsCaller ==
    resp.view \in EventViews => resp.status # 500

\* C20: the security event log is append-only: no step removes a record, and
\* a record keeps its event type and details; its user link either stays or
\* is cleared.
C20_EventLogAppendOnly ==
    [][/\ Len(events') >= Len(events)
       /\ \A i \in 1..Len(events) :
              /\ events'[i].event_type = events[i].event_type
              /\ events'[i].details = events[i].details
              /\ events'[i].user \in {events[i].user, 0}]_vars

\* The answers that report a failed MFA verification (a missing or a wrong
\* code) at the setup-verify, disable and regenerate endpoints and in
\* verify_mfa.
MfaFailureAnswers ==
    {<<"mfa_verify", "code_required">>, <<"mfa_verify", "invalid_code">>,
     <<"mfa_disable", "invalid_mfa_code">>, <<"mfa_regen", "invalid_mfa_code">>,
     <<"mfa_check", "mfa_code_required">>, <<"mfa_check", "invalid_mfa_code">>}

\* C25: every failed MFA verification, on any path and with a missing code
\* too, leaves the users' MFA fields unchanged and appends exactly one
\* mfa_failed security event.
C25_FailedMfaLogged ==
    [][(LET answer == <<resp'.view, resp'.body>> IN answer \in MfaFailureAnswers) =>
          /\ users' = users
          /\ events' = Append(events, SecurityEvent("mfa_failed", resp'.user))]_vars

\* C26: every rejected login appends a security event: login_failed for bad
\* credentials, account_locked for a locked-out attempt; no rejected login
\* leaves the security event log unchanged.
C26_LoginFailureLogged ==
    [][(resp'.view = "login" /\ resp'.status = 401) =>
          /\ Len(events') = Len(events) + 1
          /\ events'[Len(events')].event_type \in {"login_failed", "account_locked"}]_vars

\* C28: in every reachable state a user with mfa_enabled = true has a stored
\* secret.
C28_EnabledHasSecret ==
    \A u \in Users : users[u].mfa_enabled => users[u].mfa_secret # 0

\* C29: while a user's MFA is enabled, a step changes the stored backup codes
\* only if it is a regenerate or a disable answering with success; a
\* setup-verify request completing for an enabled user changes no backup code
\* and logs no mfa_enabled event.
C29_BackupCodesFrame ==
    [][\A u \in Users :
          users[u].mfa_enabled =>
              /\ users'[u].backup_codes # users[u].backup_codes =>
                     \/ resp' = UserResponse("mfa_regen", 200, "backup_codes", u)
                     \/ resp' = UserResponse("mfa_disable", 200, "mfa_disabled", u)
              /\ (resp'.view = "mfa_verify" /\ resp'.user = u) =>
                     /\ users'[u].backup_codes = users[u].backup_codes
                     /\ events' = events
                        \/ events'[Len(events')].event_type # "mfa_enabled"]_vars

\* verify_token has succeeded for the user: a verification token of the user
\* was redeemed.
VerifiedByToken(u) ==
    \E t \in 1..Len(evTokens) : evTokens[t].user = u /\ evWins[t] > 0

\* C27: once verify_token has set a user's is_verified to true, no later step
\* sets it back to false.
C27_VerifiedIsStable ==
    [][\A u \in Users :
          (VerifiedByToken(u) /\ users[u].is_verified) => users'[u].is_verified]_vars

\* The provider answered, and with success.
ProviderAccepts == captcha.reply.kind = "json" /\ captcha.reply.success
\* The score the provider reported (0 when it reported none) reaches the
\* configured threshold.
ScoreReached ==
    (IF captcha.reply.score = NoScore THEN 0 ELSE captcha.reply.score)
        >= captcha.config.score_threshold

\* C22 as stated: with the gate enabled, verify_captcha succeeds only if the
\* provider answered with success and, for the score-based provider, the
\* score reaches the threshold and the action label equals the expected
\* action; a missing token, a missing secret key, a rejection or a provider
\* error give a failure; at most one provider call is made.  With the gate
\* disabled the result is success with the 'skipped' marker.
C22_AsStated ==
    captcha.called =>
        IF captcha.config.enabled
        THEN /\ captcha.result.success =>
                    /\ ProviderAccepts
                    /\ captcha.config.provider = "recaptcha" =>
                           (ScoreReached /\ captcha.reply.action = captcha.action)
             /\ (captcha.token = 0 \/ ~captcha.config.secret_key \/ ~ProviderAccepts)
                    => ~captcha.result.success
             /\ captcha.result.calls <= 1
        ELSE captcha.result.success /\ captcha.result.skipped

\* C22, amended: the action label is compared only when the caller passes an
\* expected action.  With the gate enabled, verify_captcha succeeds exactly
\* when a secret key is set, a token is given, the provider answered with
\* success and, for the score-based provider, the score reaches the threshold
\* and the action label equals the expected action if there is one; the
\* provider is called once when key and token are present and not at all
\* otherwise.  With the gate disabled the result is success with the
\* 'skipped' marker and no call.
C22_CaptchaGate ==
    captcha.called =>
        IF captcha.config.enabled
        THEN /\ captcha.result.success <=>
                    /\ captcha.config.secret_key
                    /\ captcha.token # 0
                    /\ ProviderAccepts
                    /\ captcha.config.provider = "recaptcha" =>
                           /\ ScoreReached
                           /\ captcha.action # 0 => captcha.reply.action = captcha.action
             /\ ~captcha.result.skipped
             /\ captcha.result.calls =
                    (IF captcha.config.secret_key /\ captcha.token # 0 THEN 1 ELSE 0)
        ELSE /\ captcha.result.success
             /\ captcha.result.skipped
             /\ captcha.result.calls = 0

\* C22 witness: the score-based provider, the gate enabled, an expected
\* action given and matched, the score exactly at the threshold: success.
C22_Witness ==
    /\ captcha.called
    /\ captcha.config.enabled
    /\ captcha.config.provider = "recaptcha"
    /\ captcha.action # 0
    /\ captcha.reply.action = captcha.action
    /\ captcha.reply.score = captcha.config.score_threshold
    /\ captcha.result.success

\* The fields whose stored value the save of worker p, now at its post_save,
\* changed: the row its UPDATE replaced against the row it wrote.
SavedFields(p) ==
    LET stored == req[p].before
        written == WrittenRow(stored, req[p].snap, UpdateFields(req[p].view))
    IN {f \in ModelFields : stored[f] # written[f]}

\* Worker p's save completes in this step (its post_save handler runs).
PostSaveStep(p) == req[p].op = "au_post" /\ req'[p].op = "idle"

\* C21: a password field appears in an audit record's changes only as the
\* sentinel, never with its old or new value, and only in the record of a
\* save that changed the stored password.
C21_PasswordRedacted ==
    [][/\ \A i \in 1..Len(auditLog') :
              \A f \in ModelFields :
                  (IsPasswordField(f) /\ auditLog'[i].changes[f].changed)
                      => auditLog'[i].changes[f] = Redacted
       /\ \A p \in Procs :
              (PostSaveStep(p) /\ auditLog' # auditLog) =>
                  \A f \in ModelFields :
                      (IsPasswordField(f)
                           /\ auditLog'[Len(auditLog')].changes[f].changed)
                          => f \in SavedFields(p)]_vars

\* C23: after a request has ended, on whatever path, the thread-local audit
\* context of its worker thread holds neither a user nor a request.
C23_ContextCleared ==
    \A p \in Procs : req[p].op = "idle" => threadLocals[p] = NoContext

\* C24: a completed update of an audited entity writes an update record
\* whose changes name exactly the fields whose stored value the save changed,
\* and writes no record when it changed none.
C24_DiffIsExact ==
    [][\A p \in Procs :
          PostSaveStep(p) =>
              IF SavedFields(p) = {}
              THEN auditLog' = auditLog
              ELSE /\ Len(auditLog') = Len(auditLog) + 1
                   /\ ChangedFields(auditLog'[Len(auditLog')].changes)
                          = SavedFields(p)]_vars

\* C30: no audit record's changes carry an old or a new value of mfa_secret
\* or of backup_codes.
MfaCredentialFields == {"mfa_secret", "backup_codes"}
C30_NoMfaMaterialAudited ==
    \A i \in 1..Len(auditLog) :
        \A f \in MfaCredentialFields :
            auditLog[i].changes[f].changed => auditLog[i].changes[f].redacted

====
